---- MODULE Spec2Model ----
(***************************************************************************)
(* A model of the visitor-logging service of src/app.js: the rate limiter, *)
(* the /_health, /api/client-info and /api/logs handlers, the Visit table  *)
(* and the clock that stamps visited_at.                                   *)
(*                                                                         *)
(* JavaScript values are tagged records: [t |-> "undefined"],              *)
(* [t |-> "string", s |-> "..."] and [t |-> "number", n |-> 1].  Query     *)
(* parameters, which parseInt scans character by character, are            *)
(* [t |-> "string", c |-> <<"1", "a">>].                                   *)
(***************************************************************************)
EXTENDS Integers, Sequences, FiniteSets, TLC

\* ------------------------------------------------------------------ bounds
\* Milliseconds the clock may advance inside one rate-limit window.
MaxMs == 1
\* Whole rate-limit windows the clock may jump over.
MaxWindows == 1
\* Capture requests admitted to the /api/client-info handler.
MaxCaptures == 2
\* Rate-limited requests in one window (SpecLimit runs to the limit instead).
MaxRequests == 3
\* Requests to /api/logs in one window, in SpecLogs.
MaxReads == 1
\* Requests of one address past the limit, in SpecLimit.
MaxOver == 2
\* Requests to /api/logs in one window, in SpecPages.
MaxPageReads == 2

\* --------------------------------------------------------- program constants
\* rateLimit({ max: 100 })
Max == 100
\* rateLimit({ windowMs: 15 * 60 * 1000 })
WindowMs == 15 * 60 * 1000
\* rateLimit({ message: ... })
LimitMessage == "Too many requests from this IP, please try again later."

\* ------------------------------------------------------------ JS values
Undefined == [t |-> "undefined"]
Str(s) == [t |-> "string", s |-> s]
Num(n) == [t |-> "number", n |-> n]
\* a query-string value, kept as its characters
QStr(c) == [t |-> "string", c |-> c]

\* ToBoolean, as the || operator applies it
Truthy(v) ==
  CASE v.t = "undefined" -> FALSE
    [] v.t = "null" -> FALSE
    [] v.t = "number" -> v.n # 0
    [] v.t = "string" -> IF "c" \in DOMAIN v THEN v.c # <<>> ELSE v.s # ""
    [] v.t = "object" -> TRUE

\* a || b
Or(a, b) == IF Truthy(a) THEN a ELSE b

Min(a, b) == IF a < b THEN a ELSE b

\* ------------------------------------------------------------ Number -> string
DecimalDigits == <<"0", "1", "2", "3", "4", "5", "6", "7", "8", "9">>

RECURSIVE NatToChars(_)
NatToChars(n) ==
  IF n < 10 THEN <<DecimalDigits[n + 1]>>
  ELSE Append(NatToChars(n \div 10), DecimalDigits[(n % 10) + 1])

\* Number.prototype.toString for an integer, as characters
IntToChars(n) == IF n < 0 THEN <<"-">> \o NatToChars(-n) ELSE NatToChars(n)

RECURSIVE Join(_)
Join(chars) == IF chars = <<>> THEN "" ELSE Head(chars) \o Join(Tail(chars))

\* value.toString() of a string or an integer number
ToStringValue(v) == IF v.t = "number" THEN Str(Join(IntToChars(v.n))) ELSE v

\* ------------------------------------------------------------ parseInt
NaN == [nan |-> TRUE, n |-> 0]
Finite(n) == [nan |-> FALSE, n |-> n]
isNaN(x) == x.nan

HexLower == <<"0", "1", "2", "3", "4", "5", "6", "7", "8", "9",
              "a", "b", "c", "d", "e", "f">>
HexUpper == <<"0", "1", "2", "3", "4", "5", "6", "7", "8", "9",
              "A", "B", "C", "D", "E", "F">>

\* the value of ch as a digit of the radix, or -1
DigitValue(ch, radix) ==
  LET hits == {i \in 1..radix : HexLower[i] = ch \/ HexUpper[i] = ch}
  IN IF hits = {} THEN -1 ELSE (CHOOSE i \in hits : TRUE) - 1

WhiteSpace == {" ", "\t", "\n"}

RECURSIVE TrimStart(_)
TrimStart(s) ==
  IF s # <<>> /\ Head(s) \in WhiteSpace THEN TrimStart(Tail(s)) ELSE s

\* the longest prefix of s made of digits of the radix, read as a number;
\* acc is the value so far, seen whether any digit was read
RECURSIVE ReadDigits(_, _, _, _)
ReadDigits(s, radix, acc, seen) ==
  IF s # <<>> /\ DigitValue(Head(s), radix) >= 0
  THEN ReadDigits(Tail(s), radix, acc * radix + DigitValue(Head(s), radix), TRUE)
  ELSE IF seen THEN Finite(acc) ELSE NaN

\* the characters parseInt scans: ToString of its argument
ToChars(v) ==
  CASE v.t = "number" -> IntToChars(v.n)
    [] v.t = "undefined" -> <<"u", "n", "d", "e", "f", "i", "n", "e", "d">>
    [] OTHER -> v.c

\* parseInt(v) with no radix argument
parseInt(v) ==
  LET s1 == TrimStart(ToChars(v))
      neg == s1 # <<>> /\ Head(s1) = "-"
      s2 == IF s1 # <<>> /\ Head(s1) \in {"+", "-"} THEN Tail(s1) ELSE s1
      hex == Len(s2) >= 2 /\ s2[1] = "0" /\ s2[2] \in {"x", "X"}
      s3 == IF hex THEN SubSeq(s2, 3, Len(s2)) ELSE s2
      r == ReadDigits(s3, IF hex THEN 16 ELSE 10, 0, FALSE)
  IN IF isNaN(r) THEN NaN ELSE Finite(IF neg THEN -r.n ELSE r.n)

\* (mutant) the division truncated instead of rounded up
MathFloor(a, b) == a \div b

\* Math.ceil(a / b) for a >= 0, b >= 1
MathCeil(a, b) == IF a % b = 0 THEN a \div b ELSE (a \div b) + 1

\* ------------------------------------------------------------ inputs
\* Requests as they reach the server: the X-Forwarded-For header, the socket's
\* remote address (req.connection.remoteAddress; also req.ip, the limiter's key,
\* as no proxy is trusted) and the User-Agent header.
Clients ==
  { [xff |-> Undefined, remote |-> Str("127.0.0.1"), ua |-> Str("Mozilla/5.0")],
    [xff |-> Undefined, remote |-> Str("::1"), ua |-> Undefined],
    [xff |-> Str("8.8.8.8"), remote |-> Str("127.0.0.1"), ua |-> Str("Mozilla/5.0")],
    [xff |-> Undefined, remote |-> Str("203.0.113.7"), ua |-> Str("curl/8.0")],
    [xff |-> Str("::1"), remote |-> Str("203.0.113.7"), ua |-> Str("curl/8.0")],
    [xff |-> Str(""), remote |-> Str("::1"), ua |-> Str("curl/8.0")],
    [xff |-> Undefined, remote |-> Undefined, ua |-> Undefined] }

\* the few clients of the whole-service specification
FewClients ==
  { [xff |-> Undefined, remote |-> Str("127.0.0.1"), ua |-> Str("Mozilla/5.0")],
    [xff |-> Undefined, remote |-> Str("203.0.113.7"), ua |-> Str("curl/8.0")] }

\* the address the log viewer is read from
Viewer == Str("203.0.113.7")

\* values of the page and limit query parameters
PageInputs ==
  { Undefined, QStr(<<"1">>), QStr(<<"2">>), QStr(<<"3">>), QStr(<<"0">>),
    QStr(<<"-", "1">>), QStr(<<"a", "b", "c">>), QStr(<<>>),
    QStr(<<"2", "a">>), QStr(<<"1", ".", "5">>), QStr(<<" ", "1">>) }

LimitInputs ==
  { Undefined, QStr(<<"1">>), QStr(<<"2">>), QStr(<<"1", "0">>),
    QStr(<<"1", "0", "0">>), QStr(<<"1", "0", "1">>), QStr(<<"0">>),
    QStr(<<"-", "5">>), QStr(<<"a", "b", "c">>), QStr(<<"1", ".", "5">>),
    QStr(<<"0", "x", "2">>) }

\* every page value with a few limits, and every limit value with a few pages
Queries ==
  [page : PageInputs,
   limit : {Undefined, QStr(<<"1">>), QStr(<<"1", "0">>), QStr(<<"0">>)}]
  \cup [page : {Undefined, QStr(<<"1">>), QStr(<<"2">>)}, limit : LimitInputs]

\* GET /api/logs with no query string
DefaultQuery == [page |-> Undefined, limit |-> Undefined]

\* the few queries of the whole-service specification
FewQueries ==
  [page : {Undefined, QStr(<<"1">>), QStr(<<"2">>)},
   limit : {Undefined, QStr(<<"1", "0">>), QStr(<<"1">>)}]

\* what the geolocation provider's answer can be
Obj(fields) == [t |-> "object", f |-> fields]
Null == [t |-> "null"]

GeoFull ==
  Obj([city |-> Str("Mountain View"), region |-> Str("California"),
       country_name |-> Str("United States"),
       latitude |-> Num(37), longitude |-> Num(-122)])
GeoPartial ==
  Obj([region |-> Str("Pichincha"), country_name |-> Str("Ecuador"),
       latitude |-> Num(0), longitude |-> Num(-78)])
GeoErrorBody == Obj([error |-> Str("true"), reason |-> Str("RateLimited")])

GeoOutcomes ==
  { [kind |-> "timeout", data |-> Undefined],
    [kind |-> "http-error", data |-> Undefined],
    [kind |-> "ok", data |-> Str("<html>")],
    [kind |-> "ok", data |-> Null],
    [kind |-> "ok", data |-> GeoErrorBody],
    [kind |-> "ok", data |-> GeoPartial],
    [kind |-> "ok", data |-> GeoFull] }

\* the few outcomes of the whole-service specification
FewGeoOutcomes ==
  { [kind |-> "timeout", data |-> Undefined],
    [kind |-> "ok", data |-> GeoFull] }

NoGeo == [kind |-> "none", data |-> Undefined]

\* ------------------------------------------------------------ state
VARIABLES
  now,       \* the clock, in ms (new Date())
  rows,      \* the visits table, in insertion order
  limiter,   \* apiLimiter's store: key -> [count, resetTime]
  reqs,      \* /api/client-info requests suspended at an await
  captures,  \* capture requests admitted to the handler so far
  resp,      \* the last response sent
  proc       \* the process: where the main function or the shutdown stands

vars == <<now, rows, limiter, reqs, captures, resp, proc>>

NoResp ==
  [route |-> "none", req |-> Undefined, status |-> 0, body |-> Undefined,
   geo |-> NoGeo, geoCalls |-> 0, storeCalls |-> 0, storeOk |-> FALSE]

\* The process: the phase it is in, whether NODE_ENV is 'production', the
\* startup steps done so far in order, whether sequelize.close() was called and
\* how it settled, the status process.exit was given (-1: none), and how many
\* requests were in flight when SIGTERM came.
Process(phase, production, steps) ==
  [phase |-> phase, production |-> production, steps |-> steps,
   closeCalled |-> FALSE, closeOk |-> FALSE, exit |-> -1, open |-> 0]

\* the server listening after a startup outside production
Init ==
  /\ now = 0
  /\ rows = <<>>
  /\ limiter = <<>>
  /\ reqs = <<>>
  /\ captures = 0
  /\ resp = NoResp
  /\ proc = Process("listening", FALSE, <<"authenticate", "sync", "listen">>)

\* the listener is bound and takes requests
Accepting == proc.phase = "listening"

\* the process runs handlers: it listens, or drains the requests in flight
Running == proc.phase \in {"listening", "draining"}

\* ------------------------------------------------------------ rate limiter
\* (mutant) a request that arrives while a capture is suspended is not counted
HitStale(lim, key, t) ==
  IF key \in DOMAIN lim /\ t < lim[key].resetTime
  THEN IF DOMAIN reqs # {} THEN lim ELSE [lim EXCEPT ![key].count = @ + 1]
  ELSE (key :> [count |-> 1, resetTime |-> t + WindowMs]) @@ lim

\* One request counted against its key: a fresh window of WindowMs when the key
\* has none or its window is over, one more hit otherwise.
Hit(lim, key, t) ==
  IF key \in DOMAIN lim /\ t < lim[key].resetTime
  THEN [lim EXCEPT ![key].count = @ + 1]
  ELSE (key :> [count |-> 1, resetTime |-> t + WindowMs]) @@ lim

\* hits of the key in its open window
HitsOf(lim, key, t) ==
  IF key \in DOMAIN lim /\ t < lim[key].resetTime THEN lim[key].count ELSE 0

\* (mutant) the limit reached counts as the limit passed
OverLimitEarly(lim, key) == lim[key].count >= Max

\* the limiter's verdict on a request that is already counted
OverLimit(lim, key) == lim[key].count > Max

TooManyRequests(route, req) ==
  [route |-> route, req |-> req, status |-> 429,
   body |-> [text |-> LimitMessage],
   geo |-> NoGeo, geoCalls |-> 0, storeCalls |-> 0, storeOk |-> FALSE]

\* ------------------------------------------------------------ Visit store
\* (mutant) oldest first
AscOrders(table) ==
  LET n == Len(table)
      perms == {p \in [1..n -> 1..n] : \A i, j \in 1..n : i # j => p[i] # p[j]}
  IN { [i \in 1..n |-> table[p[i]]] :
         p \in {q \in perms : \A i, j \in 1..n :
                  i < j => table[q[i]].visited_at <= table[q[j]].visited_at} }

\* The orders ORDER BY visited_at DESC may return the table in: every
\* permutation with visited_at non-increasing (rows with equal visited_at come
\* in any order).
DescOrders(table) ==
  LET n == Len(table)
      perms == {p \in [1..n -> 1..n] : \A i, j \in 1..n : i # j => p[i] # p[j]}
  IN { [i \in 1..n |-> table[p[i]]] :
         p \in {q \in perms : \A i, j \in 1..n :
                  i < j => table[q[i]].visited_at >= table[q[j]].visited_at} }

\* Visit.findAndCountAll({offset, limit, order}) on the ordered table
findAndCountAll(sorted, offset, limit) ==
  [count |-> Len(sorted),
   rows |-> SubSeq(sorted, offset + 1, Min(offset + limit, Len(sorted)))]

\* ------------------------------------------------------------ GET /api/logs
PageError == "Invalid page number. Must be a positive integer."
LimitError == "Invalid limit. Must be between 1 and 100."

\* (mutant) the catch block answers like an empty page
LogsResponseEmptyPage(query, status, body, storeCalls, storeOk) ==
  [route |-> "/api/logs", req |-> query,
   status |-> IF status = 500 THEN 200 ELSE status,
   body |-> IF status = 500
            THEN [totalRecords |-> 0, currentPage |-> 1, totalPages |-> 0,
                  logs |-> <<>>]
            ELSE body,
   geo |-> NoGeo, geoCalls |-> 0, storeCalls |-> storeCalls, storeOk |-> storeOk]

LogsResponse(query, status, body, storeCalls, storeOk) ==
  [route |-> "/api/logs", req |-> query, status |-> status, body |-> body,
   geo |-> NoGeo, geoCalls |-> 0, storeCalls |-> storeCalls, storeOk |-> storeOk]

\* the handler, given the order the store returns and whether the read succeeds
LogsHandler(query, sorted, readOk) ==
  LET page == IF query.page = Undefined THEN Num(1) ELSE query.page
      limit == IF query.limit = Undefined THEN Num(10) ELSE query.limit
      pageNum == parseInt(page)
      limitNum == parseInt(limit)
  IN IF isNaN(pageNum) \/ pageNum.n < 1
     THEN LogsResponse(query, 400, [error |-> PageError], 0, FALSE)
     ELSE IF isNaN(limitNum) \/ limitNum.n < 1 \/ limitNum.n > 100
     THEN LogsResponse(query, 400, [error |-> LimitError], 0, FALSE)
     ELSE IF ~readOk
     THEN LogsResponse(query, 500, [error |-> "Internal Server Error"], 1, FALSE)
     ELSE LET offset == (pageNum.n - 1) * limitNum.n
              found == findAndCountAll(sorted, offset, limitNum.n)
          IN LogsResponse(query, 200,
               [totalRecords |-> found.count,
                currentPage |-> pageNum.n,
                totalPages |-> MathCeil(found.count, limitNum.n),
                logs |-> found.rows], 1, TRUE)

\* the rows of the table after GET /api/logs
LogsRows(table) == table

Logs(remote, query) ==
  LET lim == Hit(limiter, remote, now)
  IN /\ Accepting
     /\ limiter' = lim
     /\ IF OverLimit(lim, remote)
        THEN resp' = TooManyRequests("/api/logs", query)
        ELSE resp' \in {LogsHandler(query, sorted, readOk) :
                          sorted \in DescOrders(rows), readOk \in BOOLEAN}
     /\ rows' = LogsRows(rows)
     /\ UNCHANGED <<now, reqs, captures, proc>>

\* ------------------------------------------------------------ GET /_health
\* (mutant) the failure branch answers like the success branch
HealthResponseAlwaysOk(ok, t) ==
  [route |-> "/_health", req |-> Undefined, status |-> 200,
   body |-> [status |-> "ok", database |-> "connected", timestamp |-> t],
   geo |-> NoGeo, geoCalls |-> 0, storeCalls |-> 1, storeOk |-> ok]

\* res.status(200 or 503).json({status, database, timestamp})
HealthResponse(ok, t) ==
  [route |-> "/_health", req |-> Undefined,
   status |-> IF ok THEN 200 ELSE 503,
   body |-> IF ok
            THEN [status |-> "ok", database |-> "connected", timestamp |-> t]
            ELSE [status |-> "error", database |-> "disconnected", timestamp |-> t],
   geo |-> NoGeo, geoCalls |-> 0, storeCalls |-> 1, storeOk |-> ok]

\* the rows of the table after sequelize.authenticate()
HealthRows(table) == table

\* ok: whether sequelize.authenticate() resolves
Health(ok) ==
  /\ Accepting
  /\ resp' = HealthResponse(ok, now)
  /\ rows' = HealthRows(rows)
  /\ UNCHANGED <<now, limiter, reqs, captures, proc>>

\* ------------------------------------------------------------ GET /api/client-info
\* req.headers['x-forwarded-for'] || req.connection.remoteAddress || 'Unknown',
\* with the loopback addresses normalized
ClientIp(c) ==
  LET ip == Or(Or(c.xff, c.remote), Str("Unknown"))
  IN IF ip = Str("::1") \/ ip = Str("127.0.0.1") THEN Str("localhost") ELSE ip

\* req.headers['user-agent'] || 'Unknown'
UserAgent(c) == Or(c.ua, Str("Unknown"))

DefaultLocation ==
  [city |-> Str("N/A"), region |-> Str("N/A"), country |-> Str("N/A"),
   latitude |-> Str("N/A"), longitude |-> Str("N/A")]

\* (mutant) every address is looked up
NeedsGeoAlways(ip) == TRUE

\* whether the handler calls the geolocation provider for this address
NeedsGeo(ip) == ip # Str("localhost") /\ ip # Str("Unknown")

\* response.data.<name>
Prop(data, name) ==
  IF data.t = "object" /\ name \in DOMAIN data.f THEN data.f[name] ELSE Undefined

\* whether the try block around axios.get throws: the call rejects (timeout,
\* non-2xx status) or response.data has no properties to read (null, undefined)
GeoThrows(o) == o.kind # "ok" \/ o.data.t \in {"null", "undefined"}

\* locationData after the try/catch around the provider call
Locate(o) ==
  IF GeoThrows(o) THEN DefaultLocation
  ELSE [city |-> Or(Prop(o.data, "city"), Str("N/A")),
        region |-> Or(Prop(o.data, "region"), Str("N/A")),
        country |-> Or(Prop(o.data, "country_name"), Str("N/A")),
        latitude |-> Or(Prop(o.data, "latitude"), Str("N/A")),
        longitude |-> Or(Prop(o.data, "longitude"), Str("N/A"))]

\* the record Visit.create is given, with the id the table assigns
VisitRow(r, id) ==
  [id |-> id, ip |-> r.ip, user_agent |-> r.userAgent,
   city |-> r.locationData.city, region |-> r.locationData.region,
   country |-> r.locationData.country,
   latitude |-> ToStringValue(r.locationData.latitude),
   longitude |-> ToStringValue(r.locationData.longitude),
   visited_at |-> r.visited_at]

\* (mutant) a write that is repeated after it succeeded
CreateRowsTwice(table, row, writeOk) ==
  IF writeOk THEN Append(Append(table, row), row) ELSE table

\* the table after Visit.create(row) settles
CreateRows(table, row, writeOk) == IF writeOk THEN Append(table, row) ELSE table

\* (mutant) a failed lookup or a failed write surfaces as an error response
CaptureResponseRaising(r, writeOk) ==
  LET failed == ~writeOk \/ (r.geoCalls > 0 /\ r.geo.kind # "ok")
  IN [route |-> "/api/client-info", req |-> r.client,
      status |-> IF failed THEN 500 ELSE 200,
      body |-> IF failed THEN [error |-> "Internal Server Error"]
               ELSE [ip |-> r.ip, userAgent |-> r.userAgent,
                     locationData |-> r.locationData],
      geo |-> r.geo, geoCalls |-> r.geoCalls, storeCalls |-> 1, storeOk |-> writeOk]

\* res.json({ip, userAgent, locationData}) after the try/catch around Visit.create
CaptureResponse(r, writeOk) ==
  [route |-> "/api/client-info", req |-> r.client, status |-> 200,
   body |-> [ip |-> r.ip, userAgent |-> r.userAgent,
             locationData |-> r.locationData],
   geo |-> r.geo, geoCalls |-> r.geoCalls, storeCalls |-> 1, storeOk |-> writeOk]

Without(f, k) == [x \in (DOMAIN f) \ {k} |-> f[x]]

\* The request arrives: the limiter, then the handler up to its first await,
\* axios.get for an address to look up and Visit.create otherwise (the row's
\* visited_at defaults to the time of the call).
ClientInfo(c) ==
  LET lim == Hit(limiter, c.remote, now)
      ip == ClientIp(c)
      id == captures + 1
      r == [client |-> c, ip |-> ip, userAgent |-> UserAgent(c),
            locationData |-> DefaultLocation, geo |-> NoGeo]
  IN /\ Accepting
     /\ limiter' = lim
     /\ IF OverLimit(lim, c.remote)
        THEN /\ resp' = TooManyRequests("/api/client-info", c)
             /\ UNCHANGED <<reqs, captures>>
        ELSE /\ captures' = id
             /\ reqs' = (id :> (IF NeedsGeo(ip)
                                THEN r @@ [pc |-> "geo", geoCalls |-> 1, visited_at |-> -1]
                                ELSE r @@ [pc |-> "db", geoCalls |-> 0, visited_at |-> now]))
                        @@ reqs
             /\ UNCHANGED resp
     /\ UNCHANGED <<now, rows, proc>>

\* axios.get settles with outcome o; the handler runs on to Visit.create
GeoReturn(id, o) ==
  /\ Running
  /\ id \in DOMAIN reqs
  /\ reqs[id].pc = "geo"
  /\ reqs' = [reqs EXCEPT ![id].pc = "db",
                          ![id].geo = o,
                          ![id].locationData = Locate(o),
                          ![id].visited_at = now]
  /\ UNCHANGED <<now, rows, limiter, captures, resp, proc>>

\* Visit.create settles; the handler responds
CreateReturn(id, writeOk) ==
  /\ Running
  /\ id \in DOMAIN reqs
  /\ reqs[id].pc = "db"
  /\ rows' = CreateRows(rows, VisitRow(reqs[id], Len(rows) + 1), writeOk)
  /\ resp' = CaptureResponse(reqs[id], writeOk)
  /\ reqs' = Without(reqs, id)
  /\ UNCHANGED <<now, limiter, captures, proc>>

\* ------------------------------------------------------------ clock
Tick ==
  /\ now % WindowMs < MaxMs
  /\ now' = now + 1
  /\ UNCHANGED <<rows, limiter, reqs, captures, resp, proc>>

TickWindow ==
  /\ now \div WindowMs < MaxWindows
  /\ now' = now + WindowMs
  /\ UNCHANGED <<rows, limiter, reqs, captures, resp, proc>>

\* ------------------------------------------------------------ startup
\* what getSecret('DATABASE_URL') settles with
SecretOutcomes ==
  { [kind |-> "reject", value |-> Undefined],
    [kind |-> "ok", value |-> Str("")],
    [kind |-> "ok", value |-> Str("postgres://visits")] }

Requests == <<now, rows, limiter, reqs, captures, resp>>

\* the main function up to its first await: getSecret in production,
\* sequelize.authenticate() otherwise
Start ==
  /\ proc.phase = "start"
  /\ proc' = [proc EXCEPT !.phase = IF proc.production THEN "secret" ELSE "connect"]
  /\ UNCHANGED Requests

\* the catch block of the main function: the error is logged
Catch(p) == [p EXCEPT !.phase = "failed"]

\* getSecret settles; an empty secret is thrown as 'DATABASE_URL is not set.'
SecretReturn(secret) ==
  /\ proc.phase = "secret"
  /\ proc' = IF secret.kind = "ok" /\ Truthy(secret.value)
             THEN [proc EXCEPT !.phase = "connect", !.steps = Append(@, "secret")]
             ELSE Catch(proc)
  /\ UNCHANGED Requests

\* sequelize.authenticate() settles
ConnectReturn(ok) ==
  /\ proc.phase = "connect"
  /\ proc' = IF ok
             THEN [proc EXCEPT !.phase = "sync", !.steps = Append(@, "authenticate")]
             ELSE Catch(proc)
  /\ UNCHANGED Requests

\* Visit.sync() settles; the routes are registered, app.listen binds the port
\* and the SIGTERM handler is installed
SyncReturn(ok) ==
  /\ proc.phase = "sync"
  /\ proc' = IF ok
             THEN [proc EXCEPT !.phase = "listening",
                               !.steps = Append(Append(@, "sync"), "listen")]
             ELSE Catch(proc)
  /\ UNCHANGED Requests

\* After the catch block nothing ends the process; it ends by itself, with
\* status 0, if and when nothing keeps the event loop alive.
EventLoopEmpty ==
  /\ proc.phase = "failed"
  /\ proc' = [proc EXCEPT !.phase = "exited", !.exit = 0]
  /\ UNCHANGED Requests

\* ------------------------------------------------------------ shutdown
\* SIGTERM: server.close(callback); the listener takes no new connection
Sigterm ==
  /\ proc.phase = "listening"
  /\ proc' = [proc EXCEPT !.phase = "draining", !.open = Cardinality(DOMAIN reqs)]
  /\ UNCHANGED Requests

\* (mutant) the callback of server.close does not wait for the open requests
DrainedAtOnce == TRUE

\* server.close calls back when every connection has ended: no request is open
Drained == DOMAIN reqs = {}

\* the callback of server.close: sequelize.close() is called
ServerClosed ==
  /\ proc.phase = "draining"
  /\ Drained
  /\ proc' = [proc EXCEPT !.phase = "closing", !.closeCalled = TRUE]
  /\ UNCHANGED Requests

\* process.exit(0) after the close, process.exit(1) in its catch block
ExitStatus(closeOk) == IF closeOk THEN 0 ELSE 1

\* sequelize.close() settles and the process exits
CloseReturn(closeOk) ==
  /\ proc.phase = "closing"
  /\ proc' = [proc EXCEPT !.phase = "exited", !.closeOk = closeOk,
                          !.exit = ExitStatus(closeOk)]
  /\ UNCHANGED Requests

\* ------------------------------------------------------------ specifications
\* hits counted in windows that are still open
RECURSIVE OpenHits(_, _, _)
OpenHits(lim, keys, t) ==
  IF keys = {} THEN 0
  ELSE LET k == CHOOSE x \in keys : TRUE
       IN (IF t < lim[k].resetTime THEN lim[k].count ELSE 0)
          + OpenHits(lim, keys \ {k}, t)

Budget == OpenHits(limiter, DOMAIN limiter, now) < MaxRequests

\* The whole service, with few inputs.
Next ==
  \/ \E c \in FewClients : Budget /\ captures < MaxCaptures /\ ClientInfo(c)
  \/ \E id \in DOMAIN reqs, o \in FewGeoOutcomes : GeoReturn(id, o)
  \/ \E id \in DOMAIN reqs, writeOk \in BOOLEAN : CreateReturn(id, writeOk)
  \/ \E query \in FewQueries : Budget /\ Logs(Viewer, query)
  \/ \E ok \in BOOLEAN : Health(ok)
  \/ Tick

Spec == Init /\ [][Next]_vars

\* The capture endpoint, with every client and every provider outcome.
NextCapture ==
  \/ \E c \in Clients : Budget /\ captures < MaxCaptures /\ ClientInfo(c)
  \/ \E id \in DOMAIN reqs, o \in GeoOutcomes : GeoReturn(id, o)
  \/ \E id \in DOMAIN reqs, writeOk \in BOOLEAN : CreateReturn(id, writeOk)

SpecCapture == Init /\ [][NextCapture]_vars

\* The log viewer, with every query, over the tables that captures sent from
\* the viewer's own address make (all its requests count against one key).
NextLogs ==
  \/ \E c \in {c \in Clients : c.remote = Viewer /\ c.xff = Str("::1")} :
       captures < MaxCaptures /\ ClientInfo(c)
  \/ \E id \in DOMAIN reqs : CreateReturn(id, TRUE)
  \/ \E query \in Queries :
       /\ HitsOf(limiter, Viewer, now) - captures < MaxReads
       /\ Logs(Viewer, query)
  \/ Tick

SpecLogs == Init /\ [][NextLogs]_vars

\* ------------------------------------------------------------ the life of the process
\* the process before the main function runs, in production or not
InitBoot ==
  /\ now = 0
  /\ rows = <<>>
  /\ limiter = <<>>
  /\ reqs = <<>>
  /\ captures = 0
  /\ resp = NoResp
  /\ proc \in {Process("start", production, <<>>) : production \in BOOLEAN}

\* the completions a suspended capture waits for
Completes ==
  \/ \E id \in DOMAIN reqs, o \in FewGeoOutcomes : GeoReturn(id, o)
  \/ \E id \in DOMAIN reqs, writeOk \in BOOLEAN : CreateReturn(id, writeOk)

\* From startup to exit, with captures from one public address, health probes
\* and log reads between listen and SIGTERM.
NextLife ==
  \/ Start
  \/ \E secret \in SecretOutcomes : SecretReturn(secret)
  \/ \E ok \in BOOLEAN : ConnectReturn(ok)
  \/ \E ok \in BOOLEAN : SyncReturn(ok)
  \/ EventLoopEmpty
  \/ \E c \in {c \in FewClients : c.remote = Viewer} :
       Budget /\ captures < MaxCaptures /\ ClientInfo(c)
  \/ Completes
  \/ Budget /\ Logs(Viewer, DefaultQuery)
  \/ \E ok \in BOOLEAN : Health(ok)
  \/ Sigterm
  \/ ServerClosed
  \/ \E closeOk \in BOOLEAN : CloseReturn(closeOk)

\* Every await of the shutdown path settles: axios.get within its timeout of
\* 3000 ms, Visit.create, the callback of server.close once the requests are
\* done, and sequelize.close().
SpecLife ==
  /\ InitBoot /\ [][NextLife]_vars
  /\ WF_vars(Completes)
  /\ WF_vars(ServerClosed)
  /\ WF_vars(\E closeOk \in BOOLEAN : CloseReturn(closeOk))

\* ------------------------------------------------------------ paging through the log
\* the pages a viewer turns, in pages of one and of two rows
PagingQueries ==
  [page : {QStr(<<"1">>), QStr(<<"2">>), QStr(<<"3">>)},
   limit : {QStr(<<"1">>), QStr(<<"2">>)}]

\* The log viewer turning pages, one read after another, over the tables that
\* captures sent from its own address make.
NextPages ==
  \/ \E c \in {c \in Clients : c.remote = Viewer /\ c.xff = Str("::1")} :
       captures < MaxCaptures /\ ClientInfo(c)
  \/ \E id \in DOMAIN reqs : CreateReturn(id, TRUE)
  \/ \E query \in PagingQueries :
       /\ HitsOf(limiter, Viewer, now) - captures < MaxPageReads
       /\ Logs(Viewer, query)
  \/ Tick

SpecPages == Init /\ [][NextPages]_vars

\* ------------------------------------------------------------ the limiter on its own

\* One address reading the log viewer, up to MaxOver requests past the limit,
\* while the clock runs within and across windows.
NextLimit ==
  \/ HitsOf(limiter, Viewer, now) < Max + MaxOver /\ Logs(Viewer, DefaultQuery)
  \/ Tick
  \/ TickWindow

SpecLimit == Init /\ [][NextLimit]_vars

\* ------------------------------------------------------------ one address on both routes
\* One address sending captures and log reads in any interleaving, the captures
\* suspended at their awaits while further requests arrive, up to MaxOver
\* requests past the limit.
NextShared ==
  \/ \E c \in {c \in FewClients : c.remote = Viewer} :
       /\ HitsOf(limiter, Viewer, now) < Max + MaxOver
       /\ captures < MaxCaptures \/ HitsOf(limiter, Viewer, now) >= Max
       /\ ClientInfo(c)
  \/ \E id \in DOMAIN reqs, o \in FewGeoOutcomes : GeoReturn(id, o)
  \/ \E id \in DOMAIN reqs : CreateReturn(id, TRUE)
  \/ HitsOf(limiter, Viewer, now) < Max + MaxOver /\ Logs(Viewer, DefaultQuery)

SpecShared == Init /\ [][NextShared]_vars

\* ============================================================ claims
\* what a query parameter reads as, with the handler's defaults
PageOf(query) == parseInt(IF query.page = Undefined THEN Num(1) ELSE query.page)
LimitOf(query) == parseInt(IF query.limit = Undefined THEN Num(10) ELSE query.limit)

\* a response of the /api/logs handler (the limiter let the request through)
LogsHandled == resp.route = "/api/logs" /\ resp.status # 429

\* C1: for every GET /api/logs whose page parses to an integer >= 1 and whose
\* limit parses to an integer in 1..100, when the store read succeeds the
\* response is 200 with at most limit logs, currentPage the parsed page,
\* totalRecords the number of stored rows and totalPages the least number of
\* pages of that size that hold them all (ceil(totalRecords / limit)).
C1_PageBounds ==
  LET P == PageOf(resp.req)
      L == LimitOf(resp.req)
  IN (/\ LogsHandled
      /\ ~isNaN(P) /\ P.n >= 1
      /\ ~isNaN(L) /\ L.n >= 1 /\ L.n <= 100
      /\ resp.storeOk)
     => /\ resp.status = 200
        /\ Len(resp.body.logs) <= L.n
        /\ resp.body.currentPage = P.n
        /\ resp.body.totalRecords = Len(rows)
        /\ resp.body.totalPages * L.n >= resp.body.totalRecords
        /\ (resp.body.totalPages - 1) * L.n < resp.body.totalRecords

\* both stored visits served on the one page that a page size of 10 needs
C1_Witness ==
  /\ LogsHandled /\ resp.status = 200
  /\ resp.body.totalRecords = 2
  /\ resp.body.totalPages = 1
  /\ Len(resp.body.logs) = 2
  /\ LimitOf(resp.req).n = 10

\* Whether a query value is an integer written out in full: optional blanks and
\* sign, then digits only (decimal, or hexadecimal after 0x) to the end.
IsIntegerText(v) ==
  /\ v.t = "string"
  /\ LET s1 == TrimStart(v.c)
         s2 == IF s1 # <<>> /\ Head(s1) \in {"+", "-"} THEN Tail(s1) ELSE s1
         hex == Len(s2) >= 2 /\ s2[1] = "0" /\ s2[2] \in {"x", "X"}
         s3 == IF hex THEN SubSeq(s2, 3, Len(s2)) ELSE s2
     IN /\ s3 # <<>>
        /\ \A i \in 1..Len(s3) : DigitValue(s3[i], IF hex THEN 16 ELSE 10) >= 0

\* the page is a positive integer (or absent, when it defaults to 1)
IsPositiveInteger(v) ==
  v = Undefined \/ (IsIntegerText(v) /\ parseInt(v).n >= 1)

\* the limit is an integer in 1..100 (or absent, when it defaults to 10)
IsLimitInRange(v) ==
  v = Undefined \/ (IsIntegerText(v) /\ parseInt(v).n >= 1 /\ parseInt(v).n <= 100)

\* C2: GET /api/logs with page = 0, page = -1 or any page that is not a
\* positive integer responds 400 with the 'Invalid page number...' error and
\* never queries the Visit store.
C2_InvalidPageRejected ==
  (LogsHandled /\ ~IsPositiveInteger(resp.req.page))
  => /\ resp.status = 400
     /\ resp.body = [error |-> PageError]
     /\ resp.storeCalls = 0

\* C3: GET /api/logs with a valid page and limit = 0, limit = 101 or any limit
\* that is not an integer in 1..100 responds 400 with the 'Invalid limit...'
\* error and never queries the Visit store; no page size above 100 reaches the
\* store.
C3_InvalidLimitRejected ==
  /\ (LogsHandled /\ IsPositiveInteger(resp.req.page)
        /\ ~IsLimitInRange(resp.req.limit))
     => /\ resp.status = 400
        /\ resp.body = [error |-> LimitError]
        /\ resp.storeCalls = 0
  /\ (LogsHandled /\ resp.storeCalls > 0) => LimitOf(resp.req).n <= 100

\* a response of the /api/client-info handler
Captured == resp.route = "/api/client-info" /\ resp.status # 429

Loopback == {Str("::1"), Str("127.0.0.1")}

\* every locationData field is the placeholder
AllNA(loc) ==
  /\ DOMAIN loc = {"city", "region", "country", "latitude", "longitude"}
  /\ \A f \in DOMAIN loc : loc[f] = Str("N/A")

\* C4 as stated: a request arriving from a loopback address always yields
\* ip "localhost", every locationData field "N/A" and no geolocation call.
C4_FromLoopbackIsLocalhost ==
  (Captured /\ resp.req.remote \in Loopback)
  => /\ resp.body.ip = Str("localhost")
     /\ AllNA(resp.body.locationData)
     /\ resp.geoCalls = 0

\* the address the handler goes by: the X-Forwarded-For header when it is
\* present and not empty, the socket's address otherwise
EffectiveAddress(c) == IF c.xff # Undefined /\ c.xff # Str("") THEN c.xff ELSE c.remote

\* C4, amended: a request whose effective address (X-Forwarded-For when present
\* and not empty, else the socket address) is '::1' or '127.0.0.1' yields ip
\* "localhost", every locationData field "N/A" and no geolocation call; one
\* with no address at all yields ip "Unknown", again all "N/A" and no call.
C4_EffectiveLoopbackIsLocalhost ==
  /\ (Captured /\ EffectiveAddress(resp.req) \in Loopback)
     => /\ resp.body.ip = Str("localhost")
        /\ AllNA(resp.body.locationData)
        /\ resp.geoCalls = 0
  /\ (Captured /\ EffectiveAddress(resp.req) \in {Undefined, Str("Unknown")})
     => /\ resp.body.ip = Str("Unknown")
        /\ AllNA(resp.body.locationData)
        /\ resp.geoCalls = 0

\* a loopback address given in the header of a request from elsewhere
C4_Witness ==
  /\ Captured
  /\ resp.req.xff = Str("::1")
  /\ resp.req.remote \notin Loopback
  /\ resp.body.ip = Str("localhost")

\* the provider call failed: it timed out, answered with an error status, or
\* answered 2xx with a body that is no JSON object
GeoFailed(o) == o.kind \in {"timeout", "http-error"} \/ (o.kind = "ok" /\ o.data.t # "object")

\* C5: if the geolocation call of a capture request fails (timeout, non-2xx,
\* malformed body) the response is still 200 with all five locationData fields
\* "N/A", and the provider was called once only.
C5_GeoFailureAbsorbed ==
  (Captured /\ resp.geoCalls > 0 /\ GeoFailed(resp.geo))
  => /\ resp.status = 200
     /\ AllNA(resp.body.locationData)
     /\ resp.geoCalls = 1

\* a capture answered after its lookup timed out
C5_Witness ==
  /\ Captured /\ resp.status = 200
  /\ resp.geo.kind = "timeout"
  /\ resp.storeOk

\* C6: whether Visit.create succeeds or fails, the capture request is answered
\* 200 with the body {ip, userAgent, locationData} the handler held before the
\* write: a failed write changes nothing in the response.
C6_WriteFailureAbsorbed ==
  [][\A id \in DOMAIN reqs :
       (reqs[id].pc = "db" /\ id \notin DOMAIN reqs')
       => /\ resp'.route = "/api/client-info"
          /\ resp'.status = 200
          /\ resp'.body = [ip |-> reqs[id].ip, userAgent |-> reqs[id].userAgent,
                           locationData |-> reqs[id].locationData]]_vars

\* a capture answered 200 after its write failed, with a located address
C6_Witness ==
  /\ Captured /\ resp.status = 200
  /\ ~resp.storeOk
  /\ resp.body.locationData.city = Str("Mountain View")

\* C7: every capture request adds at most one row (one when its write
\* succeeds, none when it fails), nothing else adds, changes or removes rows,
\* and so the rows never outnumber the capture requests that are done.
C7_AtMostOneRowPerCapture ==
  /\ [](Len(rows) + Cardinality(DOMAIN reqs) <= captures)
  /\ [][/\ Len(rows') >= Len(rows)
        /\ SubSeq(rows', 1, Len(rows)) = rows
        /\ Len(rows') - Len(rows) =
             (IF \E id \in DOMAIN reqs : id \notin DOMAIN reqs' /\ resp'.storeOk
              THEN 1 ELSE 0)]_vars

\* two captures are done, one stored and one not
C7_Witness ==
  /\ captures = 2 /\ DOMAIN reqs = {}
  /\ Len(rows) = 1

\* C8: of the requests one address sends to /api/logs within one window the
\* first 100 pass the limiter and every later one is answered 429 with the
\* limiter's message; a request after the window is over passes again.
C8_HundredPerWindow ==
  [][limiter' # limiter
     => LET sent == IF Viewer \in DOMAIN limiter /\ now < limiter[Viewer].resetTime
                    THEN limiter[Viewer].count ELSE 0
        IN /\ resp'.route = "/api/logs"
           /\ sent < 100 => resp'.status # 429
           /\ sent >= 100
              => /\ resp'.status = 429
                 /\ resp'.body =
                      [text |-> "Too many requests from this IP, please try again later."]
           /\ (Viewer \in DOMAIN limiter /\ now >= limiter[Viewer].resetTime)
              => resp'.status # 429]_vars

\* the 101st request of a window, rejected
C8_Witness ==
  /\ resp.route = "/api/logs" /\ resp.status = 429
  /\ limiter[Viewer].count = 101
  /\ now < limiter[Viewer].resetTime

\* a GET /api/logs?page=1&limit=10 answered 200 right after a capture's response
FirstPageAfterCapture ==
  /\ resp.route = "/api/client-info" /\ resp.status = 200
  /\ resp.geoCalls = 1 /\ ~GeoFailed(resp.geo)
  /\ resp'.route = "/api/logs" /\ resp'.status = 200
  /\ limiter' # limiter
  /\ resp'.req = [page |-> QStr(<<"1">>), limit |-> QStr(<<"1", "0">>)]

C9_StoredCaptureIsFirstRow ==
  [][(FirstPageAfterCapture /\ resp.storeOk)
     => /\ Len(resp'.body.logs) >= 1
        /\ resp'.body.logs[1] = rows[Len(rows)]]_vars

C10_HealthReflectsProbe ==
  /\ [](resp.route = "/_health"
        => /\ resp.storeCalls = 1
           /\ resp.status \in {200, 503}
           /\ resp.status = 200 <=> resp.storeOk
           /\ DOMAIN resp.body = {"status", "database", "timestamp"}
           /\ resp.body.timestamp <= now
           /\ resp.status = 200
              => resp.body.status = "ok" /\ resp.body.database = "connected"
           /\ resp.status = 503
              => resp.body.status = "error" /\ resp.body.database = "disconnected")
  /\ [][resp'.route = "/_health" => rows' = rows]_vars

\* a failed probe answered 503 while visits are stored
C10_Witness ==
  /\ resp.route = "/_health" /\ resp.status = 503 /\ ~resp.storeOk
  /\ Len(rows) >= 1

\* C13: when the store read of a GET /api/logs with a valid page and limit
\* fails, the response is 500 with the body {error: "Internal Server Error"}
\* and nothing else: no totalRecords, no totalPages, no logs.
C13_ReadFailureIs500 ==
  LET P == PageOf(resp.req)
      L == LimitOf(resp.req)
  IN (/\ LogsHandled
      /\ ~isNaN(P) /\ P.n >= 1
      /\ ~isNaN(L) /\ L.n >= 1 /\ L.n <= 100
      /\ resp.storeCalls = 1 /\ ~resp.storeOk)
     => /\ resp.status = 500
        /\ DOMAIN resp.body = {"error"}
        /\ resp.body.error = "Internal Server Error"
        /\ {"totalRecords", "totalPages", "logs"} \cap DOMAIN resp.body = {}

\* a read that failed over a table that holds visits
C13_Witness ==
  /\ LogsHandled
  /\ resp.storeCalls = 1 /\ ~resp.storeOk
  /\ resp.status = 500
  /\ Len(rows) > 0

\* the five locationData fields and the provider's name for each
LocationFields == {"city", "region", "country", "latitude", "longitude"}
ProviderName(f) == IF f = "country" THEN "country_name" ELSE f

\* a well-formed provider value: a number for a coordinate, a non-empty string
\* for a place name
WellFormed(f, v) ==
  IF f \in {"latitude", "longitude"}
  THEN v.t = "number"
  ELSE v.t = "string" /\ v.s # ""

\* C16: when the geolocation call succeeds, each of the five locationData
\* fields is the provider's value if the provider supplied a well-formed one
\* and "N/A" only otherwise, whatever the other fields are; the row stored for
\* the request carries the same five values (the coordinates as text).
C16_FieldsDefaultedIndividually ==
  (Captured /\ resp.geoCalls = 1 /\ resp.geo.kind = "ok")
  => LET loc == resp.body.locationData
     IN /\ \A f \in LocationFields :
             LET v == Prop(resp.geo.data, ProviderName(f))
             IN loc[f] = IF WellFormed(f, v) THEN v ELSE Str("N/A")
        /\ resp.storeOk
           => LET row == rows[Len(rows)]
              IN /\ row.city = loc.city
                 /\ row.region = loc.region
                 /\ row.country = loc.country
                 /\ row.latitude = ToStringValue(loc.latitude)
                 /\ row.longitude = ToStringValue(loc.longitude)

\* the rows of a page, as a set
RowsOn(logs) == {logs[i] : i \in 1..Len(logs)}

\* a page the handler served: 200 to a valid page and limit
PageServed(r) ==
  /\ r.route = "/api/logs" /\ r.status = 200
  /\ ~isNaN(PageOf(r.req)) /\ PageOf(r.req).n >= 1
  /\ ~isNaN(LimitOf(r.req)) /\ LimitOf(r.req).n >= 1 /\ LimitOf(r.req).n <= 100

\* the rows at positions (page-1)*limit up to page*limit of an ordering
SliceOf(sorted, page, limit) ==
  [i \in 1..IF Len(sorted) > (page - 1) * limit
            THEN Min(limit, Len(sorted) - (page - 1) * limit) ELSE 0
     |-> sorted[(page - 1) * limit + i]]

\* C14, one page: the logs of a served page are the rows at positions
\* (page-1)*limit up to page*limit of the table sorted by visited_at
\* descending, and a page past totalPages is an empty list with status 200.
C14_PageIsSlice ==
  PageServed(resp)
  => LET P == PageOf(resp.req).n
         L == LimitOf(resp.req).n
     IN /\ \E sorted \in DescOrders(rows) : resp.body.logs = SliceOf(sorted, P, L)
        /\ P > resp.body.totalPages => resp.body.logs = <<>>

\* C14, page after page: when page p and then page p + 1 are read with the
\* same limit from the same table, the two pages share no row, and they hold
\* the whole table between them when they are pages 1 and 2 of 2.
C14_NextPageDisjoint ==
  (/\ PageServed(resp) /\ PageServed(resp')
   /\ rows' = rows
   /\ LimitOf(resp'.req).n = LimitOf(resp.req).n
   /\ PageOf(resp'.req).n = PageOf(resp.req).n + 1)
  => /\ RowsOn(resp.body.logs) \cap RowsOn(resp'.body.logs) = {}
     /\ (PageOf(resp.req).n = 1 /\ resp'.body.totalPages = 2)
        => RowsOn(resp.body.logs) \cup RowsOn(resp'.body.logs) = RowsOn(rows)

\* C14: for a valid page and limit the logs are the rows at positions
\* (page-1)*limit up to but excluding page*limit of all rows sorted by
\* visited_at descending; consecutive pages are disjoint and together make the
\* whole table; a page past totalPages is an empty list with status 200.
C14_PagesPartitionTable ==
  /\ []C14_PageIsSlice
  /\ [][C14_NextPageDisjoint]_vars

\* no two rows of the table were stamped in the same millisecond
DistinctTimes(table) ==
  \A i, j \in 1..Len(table) : i # j => table[i].visited_at # table[j].visited_at

\* C14 where it holds: over a table whose rows all differ in visited_at,
\* consecutive pages read from the same table are disjoint and make the whole.
C14_DistinctTimesPartition ==
  [][DistinctTimes(rows) => C14_NextPageDisjoint]_vars

\* a step in which a request of the viewer's address reaches the limiter: a
\* capture is admitted, or a log read or a rejection is answered
Arrival ==
  \/ limiter' # limiter
  \/ captures' # captures
  \/ resp' # resp /\ (resp'.route = "/api/logs" \/ resp'.status = 429)

\* the arriving request passed the limiter to its handler
Passed ==
  \/ captures' = captures + 1 /\ DOMAIN reqs' # DOMAIN reqs
  \/ captures' = captures /\ resp'.route = "/api/logs" /\ resp'.status # 429

\* C15: under any interleaving of the requests one address sends to
\* /api/client-info and /api/logs, with captures suspended at their awaits,
\* every request adds exactly one to the address's count; the first 100 of a
\* window pass to their handler and every later one is answered 429 with the
\* handler not run: no geolocation call, no capture in flight, no row.
C15_NoLostIncrement ==
  [][Arrival
     => LET before == HitsOf(limiter, Viewer, now)
            after == HitsOf(limiter', Viewer, now')
        IN /\ after = before + 1
           /\ before < 100 => Passed
           /\ before >= 100
              => /\ ~Passed
                 /\ resp'.status = 429
                 /\ resp'.body =
                      [text |-> "Too many requests from this IP, please try again later."]
                 /\ resp'.geoCalls = 0 /\ resp'.storeCalls = 0
                 /\ reqs' = reqs /\ rows' = rows /\ captures' = captures]_vars

\* a capture rejected as the 101st request of the window while an earlier
\* capture of the same address is still waiting for the geolocation provider
C15_Witness ==
  /\ resp.route = "/api/client-info" /\ resp.status = 429
  /\ limiter[Viewer].count = 101
  /\ \E id \in DOMAIN reqs : reqs[id].pc = "geo"
  /\ Len(rows) = 1

\* the startup steps in the order the claim gives them
StartupOrder(production) ==
  IF production
  THEN <<"secret", "authenticate", "sync", "listen">>
  ELSE <<"authenticate", "sync", "listen">>

IsPrefix(s, t) == Len(s) <= Len(t) /\ s = SubSeq(t, 1, Len(s))

Bound == \E i \in 1..Len(proc.steps) : proc.steps[i] = "listen"

\* the startup did not get to the listener: the main function's catch block
\* has run
StartupFailed == proc.phase = "failed" \/ (proc.phase = "exited" /\ ~Bound)

\* C11, the order: the startup steps are done in the order secret (in
\* production), connection check, schema sync, listen; a failed startup never
\* binds the listener and no request is ever answered.
C11_OrderedAndNeverBound ==
  /\ IsPrefix(proc.steps, StartupOrder(proc.production))
  /\ proc.phase \in {"listening", "draining", "closing"}
     => proc.steps = StartupOrder(proc.production)
  /\ resp # NoResp \/ DOMAIN reqs # {} \/ captures > 0 => Bound
  /\ StartupFailed => ~Bound /\ resp = NoResp /\ rows = <<>>

\* C11: startup is strictly ordered (secret in production, connection check,
\* schema sync, listen), and a startup that fails on the secret or the store
\* is a fatal abort: the process has terminated, with a failure status, and
\* the listener was never bound.
C11_StartupOrderedOrFatal ==
  /\ C11_OrderedAndNeverBound
  /\ StartupFailed => proc.phase = "exited" /\ proc.exit # 0

\* a startup that failed in production after the secret was resolved
C11_FailedStartup ==
  /\ proc.phase = "failed" /\ proc.production
  /\ proc.steps = <<"secret">>

\* the process has been told to stop
Stopping == proc.phase \in {"draining", "closing", "exited"} /\ Bound

\* C12: after SIGTERM no new request is taken; sequelize.close() is called
\* only when no request is in flight, so no capture writes to a closed store;
\* the process exits only after the close has settled, with status 0 when it
\* succeeded and 1 when it failed; and once SIGTERM has come the process
\* eventually exits.
C12_GracefulShutdown ==
  /\ [](proc.closeCalled => DOMAIN reqs = {})
  /\ []((proc.phase = "exited" /\ Bound)
         => /\ proc.closeCalled
            /\ proc.exit = 0 <=> proc.closeOk
            /\ proc.exit # 0 <=> ~proc.closeOk)
  /\ [][Stopping
        => /\ limiter' = limiter /\ captures' = captures
           /\ resp' # resp
              => /\ resp'.route = "/api/client-info" /\ resp'.status = 200
                 /\ Cardinality(DOMAIN reqs') < Cardinality(DOMAIN reqs)
           /\ proc.closeCalled => rows' = rows /\ reqs' = reqs]_vars
  /\ [][proc'.closeCalled /\ ~proc.closeCalled => proc.phase = "draining"]_vars
  /\ (proc.phase = "draining") ~> (proc.phase = "exited")

\* the process exited with status 1 after a failed close; the two captures
\* that were in flight at SIGTERM were stored before the close
C12_Witness ==
  /\ proc.phase = "exited" /\ proc.exit = 1 /\ ~proc.closeOk /\ proc.closeCalled
  /\ proc.open = 2
  /\ captures = 2 /\ Len(rows) = 2 /\ DOMAIN reqs = {}
  /\ resp.route = "/api/client-info"

====
